---------------------------- MODULE Spec2Model ----------------------------
(***************************************************************************)
(* A model of orgroam2obsidian/convert.py: the Org scanner                 *)
(* (extract_notes_from_file), sanitize_filename, replace_links,            *)
(* copy_attachments and the three steps of main.                           *)
(*                                                                         *)
(* Strings are sequences of one-character strings, so prefixes, basenames  *)
(* and concatenations are computed, not assumed.  A line of an Org file is *)
(* a record naming which of the scanner's regular expressions it matches   *)
(* and what their groups capture.                                          *)
(***************************************************************************)
EXTENDS Integers, Sequences, FiniteSets, TLC

VARIABLES
    \* sanitize_filename(filename)
    filename, sanitized,
    \* replace_links(second_brain, match, current_note)
    link_text, link_target, current_note, replaced,
    \* re.sub(link_pattern, ..., content) in step 3 of main: content as
    \* read from the file, and new_content
    md_content, new_content,
    \* extract_notes_from_file(filename): the file's lines and the result
    lines, notes,
    \* main: its arguments, the module global, the graph and the loops
    ATTACHMENTS_FOLDER, use_title, files, second_brain, pc, idx, att_idx,
    \* the file systems: source attachments, rendered files, the directories
    \* and the staged copies of the output tree
    src_fs, out_md, out_dirs, out_att,
    \* standard output and the traceback of an uncaught exception
    printed,
    \* history: what the renderer produced for each note, the attachment
    \* lookups made, and the notes each step has reached
    rendered, looked_up, attempted

vars == <<filename, sanitized, link_text, link_target, current_note, replaced,
          md_content, new_content,
          lines, notes, ATTACHMENTS_FOLDER, use_title, files, second_brain,
          pc, idx, att_idx, src_fs, out_md, out_dirs, out_att, printed,
          rendered, looked_up, attempted>>

---------------------------------------------------------------------------
\* Bounds of the model.
MaxStrLen == 4
MaxTargetLen == 3
MaxLines == 5
MaxFiles == 2
MaxBodyLines == 2
MaxContentLen == 6

---------------------------------------------------------------------------
\* Strings

RECURSIVE Strings(_, _)
\* Every string over alphabet of length at most n.
Strings(alphabet, n) ==
    IF n = 0 THEN {<<>>}
    ELSE LET shorter == Strings(alphabet, n - 1)
         IN  shorter \cup {Append(s, c) : s \in shorter, c \in alphabet}

\* str.startswith(prefix)
startswith(str, prefix) ==
    /\ Len(prefix) <= Len(str)
    /\ SubSeq(str, 1, Len(prefix)) = prefix

\* str.removeprefix(prefix)
removeprefix(str, prefix) ==
    IF startswith(str, prefix)
    THEN SubSeq(str, Len(prefix) + 1, Len(str))
    ELSE str

\* Whether sub occurs in str as a contiguous slice (Python's `sub in str`).
Contains(str, sub) ==
    \E i \in 1..(Len(str) - Len(sub) + 1) : SubSeq(str, i, i + Len(sub) - 1) = sub

\* os.path.basename(path): what follows the last "/".
basename(path) ==
    LET slashes == {i \in 1..Len(path) : path[i] = "/"}
    IN  IF slashes = {} THEN path
        ELSE LET last == CHOOSE i \in slashes : \A j \in slashes : j <= i
             IN  SubSeq(path, last + 1, Len(path))

\* os.path.join(a, b) for two components.
join2(a, b) ==
    IF Len(b) > 0 /\ b[1] = "/" THEN b
    ELSE IF a = <<>> \/ a[Len(a)] = "/" THEN a \o b
    ELSE a \o <<"/">> \o b

RECURSIVE path_join(_)
\* os.path.join(*parts), parts a non-empty sequence of strings.
path_join(parts) ==
    IF Len(parts) = 1 THEN parts[1]
    ELSE join2(path_join(SubSeq(parts, 1, Len(parts) - 1)), parts[Len(parts)])

RECURSIVE Segments(_)
\* The file a path names: its components, with empty and "." components
\* dropped, as the file system resolves them.
Segments(path) ==
    IF path = <<>> THEN <<>>
    ELSE LET slashes == {i \in 1..Len(path) : path[i] = "/"}
             cut == IF slashes = {} THEN Len(path) + 1
                    ELSE CHOOSE i \in slashes : \A j \in slashes : i <= j
             head == SubSeq(path, 1, cut - 1)
             rest == Segments(SubSeq(path, cut + 1, Len(path)))
         IN  IF head = <<>> \/ head = <<".">> THEN rest ELSE <<head>> \o rest

---------------------------------------------------------------------------
\* sanitize_filename

\* The characters the class ['<>:"/\\|?*\x00-\x1F] names one by one.
ReservedChars == {"'", "<", ">", ":", "\"", "/", "\\", "|", "?", "*"}

\* The range \x00-\x1F of the class, by the control characters a string
\* literal can hold.
ControlChars == {"\t", "\n", "\f", "\r"}

\* A plausible slip: the class without its range of control characters.
sanitize_filename_keeps_controls(name) ==
    [i \in 1..Len(name) |-> IF name[i] \in ReservedChars THEN "-" ELSE name[i]]

\* re.sub(r'[\'<>:"/\\|?*\x00-\x1F]', '-', filename)
sanitize_filename(name) ==
    [i \in 1..Len(name) |->
        IF name[i] \in ReservedChars \cup ControlChars THEN "-" ELSE name[i]]

---------------------------------------------------------------------------
\* Note and the graph

\* Note.__init__
Note(id, title, content, level, attachments) ==
    [id |-> id, title |-> title, content |-> content, level |-> level,
     attachments |-> attachments]

\* second_brain is a dict: a sequence of notes with distinct ids, in
\* insertion order.  brain_get is dict.get: <<>> for None, <<note>> otherwise.
brain_get(brain, id) ==
    LET hits == {i \in 1..Len(brain) : brain[i].id = id}
    IN  IF hits = {} THEN <<>> ELSE <<brain[CHOOSE i \in hits : TRUE]>>

\* The keys of the dict.
brain_keys(brain) == {brain[i].id : i \in 1..Len(brain)}

\* A plausible slip: dict.setdefault, the first note of an id is kept.
brain_setdefault(brain, note) ==
    IF note.id \in brain_keys(brain) THEN brain ELSE Append(brain, note)

\* second_brain[note.id] = note: rebinds an existing key in place, appends
\* a new one.
brain_set(brain, note) ==
    IF note.id \in brain_keys(brain)
    THEN [i \in 1..Len(brain) |-> IF brain[i].id = note.id THEN note ELSE brain[i]]
    ELSE Append(brain, note)

---------------------------------------------------------------------------
\* replace_links

ID_SCHEME == <<"i", "d", ":">>
ATTACHMENT_SCHEME == <<"a", "t", "t", "a", "c", "h", "m", "e", "n", "t", ":">>
NOT_FOUND == <<"N", "o", "t", "e", " ", "n", "o", "t", " ", "f", "o", "u", "n", "d", ":", " ">>

\* f"[{text}]({target})"
generic_link(text, target) == <<"[">> \o text \o <<"]", "(">> \o target \o <<")">>

\* A plausible slip: an unresolved id: link is dropped.
replace_links_drops_unresolved(brain, text, target, folder, current) ==
    IF startswith(target, ID_SCHEME)
    THEN LET target_note == brain_get(brain, removeprefix(target, ID_SCHEME))
         IN  IF target_note # <<>>
             THEN <<"[", "[">> \o sanitize_filename(target_note[1].title) \o <<"]", "]">>
             ELSE <<>>
    ELSE IF startswith(target, ATTACHMENT_SCHEME)
    THEN <<"!", "[", "[">> \o folder \o <<"/">> \o current.id \o <<"/">>
            \o basename(removeprefix(target, ATTACHMENT_SCHEME)) \o <<"]", "]">>
    ELSE generic_link(text, target)

\* A plausible slip: the wikilink carries the link's label, not the title.
replace_links_uses_label(brain, text, target, folder, current) ==
    IF startswith(target, ID_SCHEME)
    THEN LET target_note == brain_get(brain, removeprefix(target, ID_SCHEME))
         IN  IF target_note # <<>>
             THEN <<"[", "[">> \o sanitize_filename(text) \o <<"]", "]">>
             ELSE generic_link(NOT_FOUND \o text, target)
    ELSE IF startswith(target, ATTACHMENT_SCHEME)
    THEN <<"!", "[", "[">> \o folder \o <<"/">> \o current.id \o <<"/">>
            \o basename(removeprefix(target, ATTACHMENT_SCHEME)) \o <<"]", "]">>
    ELSE generic_link(text, target)

\* replace_links(second_brain, match, current_note), with match.group(1),
\* match.group(2) and the global ATTACHMENTS_FOLDER as parameters.
replace_links(brain, text, target, folder, current) ==
    IF startswith(target, ID_SCHEME)
    THEN LET target_note == brain_get(brain, removeprefix(target, ID_SCHEME))
         IN  IF target_note # <<>>
             THEN <<"[", "[">> \o sanitize_filename(target_note[1].title) \o <<"]", "]">>
             ELSE generic_link(NOT_FOUND \o text, target)
    ELSE IF startswith(target, ATTACHMENT_SCHEME)
    THEN <<"!", "[", "[">> \o folder \o <<"/">> \o current.id \o <<"/">>
            \o basename(removeprefix(target, ATTACHMENT_SCHEME)) \o <<"]", "]">>
    ELSE generic_link(text, target)

---------------------------------------------------------------------------
\* The lines of an Org file
\*
\* A line is the record of what the scanner's regular expressions find in
\* it: kind "title" matches ^\s*#\+title:\s*(.+) (text: the stripped
\* group), "properties" and "end" strip to :PROPERTIES: and :END:, "prop"
\* strips to :([^:]+):\s*(.+) (key, text: the groups), "heading" matches
\* ^(\*+)\s+(.+) (stars: the length of the run, text: the title), "stars"
\* matches ^\*+\s+ without a title after it, and "text" is any other line.
\* refs are the [[attachment:p]] and [[file:p]] references of the line in
\* the order they stand in it.

Line(kind, stars, key, text, refs) ==
    [kind |-> kind, stars |-> stars, key |-> key, text |-> text, refs |-> refs]

TitleLine(t) == Line("title", 0, "", t, <<>>)
PropertiesLine == Line("properties", 0, "", <<>>, <<>>)
EndLine == Line("end", 0, "", <<>>, <<>>)
PropLine(k, v) == Line("prop", 0, k, v, <<>>)
HeadingLine(n, t) == Line("heading", n, "", t, <<>>)
StarsLine(n) == Line("stars", n, "", <<>>, <<>>)
TextLine(t, refs) == Line("text", 0, "", t, refs)

AttachmentRef(p) == [form |-> "attachment", path |-> p]
FileRef(p) == [form |-> "file", path |-> p]

\* re.match(r'^\*+\s+', line), the preamble's test for the first heading
starts_with_stars(line) == line.kind \in {"heading", "stars"}

\* re.match(r'^(?P<stars>\*+)\s+(?P<title>.+)', line)
heading_match(line) == line.kind = "heading"

IsAttachmentForm(ref) == ref.form = "attachment"
IsQualifyingFile(ref) ==
    /\ ref.form = "file"
    /\ \/ startswith(ref.path, <<"a", "t", "t", "a", "c", "h", "m", "e", "n", "t", "s", "/">>)
       \/ startswith(ref.path, <<".", "/">>)

\* Path(s) == the paths of a sequence of references
RefPaths(refs) == [i \in 1..Len(refs) |-> refs[i].path]

\* A plausible slip: one scan of the line that appends the references of
\* either form as they come.
line_attachments_in_one_scan(line) ==
    LET Either(ref) == IsAttachmentForm(ref) \/ IsQualifyingFile(ref)
    IN  RefPaths(SelectSeq(line.refs, Either))

\* The references one line appends: every match of the attachment pattern,
\* then the matches of the file pattern that start with attachments/ or ./
line_attachments(line) ==
    RefPaths(SelectSeq(line.refs, IsAttachmentForm))
        \o RefPaths(SelectSeq(line.refs, IsQualifyingFile))

RECURSIVE lines_attachments(_)
lines_attachments(ls) ==
    IF ls = <<>> THEN <<>>
    ELSE line_attachments(Head(ls)) \o lines_attachments(Tail(ls))

\* properties[key] = value
prop_set(properties, key, value) ==
    [k \in DOMAIN properties \cup {key} |-> IF k = key THEN value ELSE properties[k]]

\* properties.get('ID'), <<>> when the key is absent
prop_id(properties) ==
    IF "ID" \in DOMAIN properties THEN properties["ID"] ELSE <<>>

NoProperties == [k \in {} |-> <<>>]

---------------------------------------------------------------------------
\* extract_notes_from_file

\* The scanner's local variables; note is <<>> for None.
ScanInit ==
    [line_index |-> 0, notes |-> <<>>, note |-> <<>>, content_lines |-> <<>>,
     attachments |-> <<>>, current_level |-> 0, title |-> <<>>,
     in_properties |-> FALSE, properties |-> NoProperties]

RECURSIVE scan_preamble(_, _)
\* The first loop: title and properties at the top of the file.
scan_preamble(ls, st) ==
    IF st.line_index >= Len(ls) THEN st
    ELSE LET line == ls[st.line_index + 1]
             next == st.line_index + 1
         IN  IF line.kind = "title"
             THEN scan_preamble(ls, [st EXCEPT !.title = line.text, !.line_index = next])
             ELSE IF line.kind = "properties"
             THEN scan_preamble(ls, [st EXCEPT !.in_properties = TRUE, !.line_index = next])
             ELSE IF line.kind = "end"
             THEN scan_preamble(ls, [st EXCEPT !.in_properties = FALSE, !.line_index = next])
             ELSE IF st.in_properties
             THEN scan_preamble(ls,
                    [st EXCEPT !.properties =
                                   IF line.kind = "prop"
                                   THEN prop_set(@, line.key, line.text) ELSE @,
                               !.line_index = next])
             ELSE IF starts_with_stars(line)
             THEN st
             ELSE scan_preamble(ls,
                    [st EXCEPT !.content_lines = Append(@, line), !.line_index = next])

\* The top-level note, created if the preamble's properties hold an ID.
root_note(st) ==
    IF prop_id(st.properties) # <<>>
    THEN [st EXCEPT
            !.notes = Append(@, Note(prop_id(st.properties),
                                     IF st.title # <<>> THEN st.title
                                     ELSE <<"U", "n", "t", "i", "t", "l", "e", "d">>,
                                     st.content_lines, 0,
                                     lines_attachments(st.content_lines))),
            !.note = <<>>, !.content_lines = <<>>, !.attachments = <<>>]
    ELSE st

\* "If we were collecting a note, save it"
flush(st) ==
    IF st.note # <<>>
    THEN [st EXCEPT
            !.notes = Append(@, [st.note[1] EXCEPT !.content = st.content_lines,
                                                   !.attachments = st.attachments]),
            !.content_lines = <<>>, !.attachments = <<>>, !.note = <<>>]
    ELSE st

RECURSIVE scan_heading_properties(_, _)
\* "Check for properties immediately after heading"
scan_heading_properties(ls, st) ==
    IF st.line_index >= Len(ls) THEN st
    ELSE LET line == ls[st.line_index + 1]
             next == st.line_index + 1
         IN  IF line.kind = "properties"
             THEN scan_heading_properties(ls,
                    [st EXCEPT !.in_properties = TRUE, !.line_index = next])
             ELSE IF line.kind = "end"
             THEN scan_heading_properties(ls,
                    [st EXCEPT !.in_properties = FALSE, !.line_index = next])
             ELSE IF st.in_properties
             THEN scan_heading_properties(ls,
                    [st EXCEPT !.properties =
                                   IF line.kind = "prop"
                                   THEN prop_set(@, line.key, line.text) ELSE @,
                               !.line_index = next])
             ELSE st

\* "Now check if this heading has an ID"
open_note(st) ==
    IF prop_id(st.properties) # <<>>
    THEN [st EXCEPT !.note = <<Note(prop_id(st.properties), st.title, <<>>,
                                    st.current_level, <<>>)>>]
    ELSE [st EXCEPT !.note = <<>>]

RECURSIVE scan_rest(_, _)
\* The second loop: headings and their bodies.
scan_rest(ls, st) ==
    IF st.line_index >= Len(ls) THEN st
    ELSE LET line == ls[st.line_index + 1]
         IN  IF heading_match(line)
             THEN scan_rest(ls,
                    open_note(scan_heading_properties(ls,
                        [flush(st) EXCEPT !.current_level = line.stars,
                                          !.title = line.text,
                                          !.properties = NoProperties,
                                          !.in_properties = FALSE,
                                          !.line_index = st.line_index + 1])))
             ELSE IF st.note # <<>>
             THEN scan_rest(ls,
                    [st EXCEPT !.content_lines = Append(@, line),
                               !.attachments = @ \o line_attachments(line),
                               !.line_index = st.line_index + 1])
             ELSE scan_rest(ls, [st EXCEPT !.line_index = st.line_index + 1])

\* extract_notes_from_file(filename), ls the lines fd.readlines() returns
extract_notes_from_file(ls) ==
    flush(scan_rest(ls, root_note(scan_preamble(ls, ScanInit)))).notes

---------------------------------------------------------------------------
\* Values every specification gives the variables it does not use.

SanitizeIdle == filename = <<>> /\ sanitized = <<>>
LinkIdle ==
    /\ link_text = <<>> /\ link_target = <<>> /\ current_note = <<>> /\ replaced = <<>>
    /\ md_content = <<>> /\ new_content = <<>>
ExtractIdle == lines = <<>> /\ notes = <<>>
NoFiles == [f \in {} |-> <<>>]
NothingAttempted == [render |-> {}, copy |-> {}, links |-> {}]
RunIdle ==
    /\ use_title = FALSE /\ files = <<>> /\ idx = 0 /\ att_idx = 0
    /\ src_fs = {} /\ out_md = NoFiles /\ out_dirs = {} /\ out_att = {}
    /\ printed = <<>> /\ rendered = NoFiles /\ looked_up = <<>>
    /\ attempted = NothingAttempted

sanitize_vars == <<filename, sanitized>>
link_vars == <<link_text, link_target, current_note, replaced, md_content, new_content>>
extract_vars == <<lines, notes>>
run_vars == <<use_title, files, idx, att_idx, src_fs, out_md, out_dirs, out_att,
              printed, rendered, looked_up, attempted>>

---------------------------------------------------------------------------
\* Specification SpecSanitize: sanitize_filename on every string over
\* SanitizeAlphabet of length at most MaxStrLen.

SanitizeAlphabet == {"a", "B", " ", "-", "/", ":", "\\", "*", "\n", "\t"}

InitSanitize ==
    /\ filename \in Strings(SanitizeAlphabet, MaxStrLen)
    /\ sanitized = <<>>
    /\ pc = "call"
    /\ LinkIdle /\ ExtractIdle /\ RunIdle
    /\ ATTACHMENTS_FOLDER = <<>> /\ second_brain = <<>>

CallSanitize ==
    /\ pc = "call"
    /\ sanitized' = sanitize_filename(filename)
    /\ pc' = "return"
    /\ UNCHANGED <<filename, link_vars, extract_vars, run_vars,
                   ATTACHMENTS_FOLDER, second_brain>>

NextSanitize == CallSanitize

SpecSanitize == InitSanitize /\ [][NextSanitize]_vars

---------------------------------------------------------------------------
\* Specification SpecLinks: replace_links on one match, for every graph of
\* LinkGraphs, every note of it as the current note, and every label and
\* target of LinkTexts and LinkTargets.

LinkIds == {<<"a">>, <<"A">>, <<"a", "a">>}
LinkTitles == {<<"T">>, <<"x", "/", "y">>}
LinkNotes == {Note(i, t, <<>>, 1, <<>>) : i \in LinkIds, t \in LinkTitles}
LinkGraphs ==
    {<<n>> : n \in LinkNotes}
        \cup {g \in {<<n, m>> : n \in LinkNotes, m \in LinkNotes} : g[1].id # g[2].id}
LinkTexts == {<<"L">>, <<"i", "d", ":", "a">>}
LinkSchemes ==
    {<<>>, ID_SCHEME, <<"I", "D", ":">>, <<"i", "d">>, ATTACHMENT_SCHEME,
     <<"a", "t", "t", "a", "c", "h", "m", "e", "n", "t">>, <<"f", "i", "l", "e", ":">>}
LinkTargets ==
    {s \o r : s \in LinkSchemes, r \in Strings({"a", "A", "/"}, MaxTargetLen)}
LinkFolders == {<<"a", "t", "t">>, <<"/", "d", "/", "a", "t", "t">>}

InitLinks ==
    /\ second_brain \in LinkGraphs
    /\ \E i \in 1..Len(second_brain) : current_note = second_brain[i]
    /\ link_text \in LinkTexts
    /\ link_target \in LinkTargets
    /\ ATTACHMENTS_FOLDER \in LinkFolders
    /\ replaced = <<>>
    /\ md_content = <<>> /\ new_content = <<>>
    /\ pc = "call"
    /\ SanitizeIdle /\ ExtractIdle /\ RunIdle

CallReplaceLinks ==
    /\ pc = "call"
    /\ replaced' = replace_links(second_brain, link_text, link_target,
                                 ATTACHMENTS_FOLDER, current_note)
    /\ pc' = "return"
    /\ UNCHANGED <<link_text, link_target, current_note, md_content, new_content,
                   sanitize_vars, extract_vars, run_vars, ATTACHMENTS_FOLDER,
                   second_brain>>

NextLinks == CallReplaceLinks

SpecLinks == InitLinks /\ [][NextLinks]_vars

---------------------------------------------------------------------------
\* Specification SpecExtract: extract_notes_from_file on every file of at
\* most MaxLines lines over ScanLines.

ScanLines ==
    {TitleLine(<<"T">>), PropertiesLine, EndLine,
     PropLine("ID", <<"a">>), PropLine("ID", <<"b">>),
     HeadingLine(1, <<"H">>), HeadingLine(2, <<"S">>), StarsLine(1),
     TextLine(<<"t">>, <<>>)}

InitExtract ==
    /\ lines \in Strings(ScanLines, MaxLines)
    /\ notes = <<>>
    /\ pc = "call"
    /\ SanitizeIdle /\ LinkIdle /\ RunIdle
    /\ ATTACHMENTS_FOLDER = <<>> /\ second_brain = <<>>

CallExtract ==
    /\ pc = "call"
    /\ notes' = extract_notes_from_file(lines)
    /\ pc' = "return"
    /\ UNCHANGED <<lines, sanitize_vars, link_vars, run_vars,
                   ATTACHMENTS_FOLDER, second_brain>>

NextExtract == CallExtract

SpecExtract == InitExtract /\ [][NextExtract]_vars

---------------------------------------------------------------------------
\* Specification SpecAttachments: extract_notes_from_file on files whose
\* notes have bodies of at most MaxBodyLines lines, each line holding up to
\* two references of either form.

NESTED_X == <<"a", "t", "t", "a", "c", "h", "m", "e", "n", "t", "s", "/", "x">>
Y_HERE == <<".", "/", "y">>
REFS == {AttachmentRef(<<"x">>), FileRef(Y_HERE), FileRef(NESTED_X), FileRef(<<"z">>)}
RefLines ==
    {TextLine(<<"t">>, r) :
        r \in {<<>>} \cup {<<a>> : a \in REFS} \cup {<<a, b>> : a \in REFS, b \in REFS}}

RootHeader(id) == <<PropertiesLine, PropLine("ID", id), EndLine>>
HeadingHeader(id) ==
    <<HeadingLine(1, <<"H">>), PropertiesLine, PropLine("ID", id), EndLine>>

\* One note at the root or under a heading, or two notes with the same body.
RefFiles ==
    LET bodies == Strings(RefLines, MaxBodyLines)
    IN  {RootHeader(<<"a">>) \o b : b \in bodies}
            \cup {HeadingHeader(<<"a">>) \o b : b \in bodies}
            \cup {RootHeader(<<"a">>) \o b \o HeadingHeader(<<"b">>) \o b : b \in bodies}
            \cup {HeadingHeader(<<"a">>) \o b \o HeadingHeader(<<"b">>) \o b : b \in bodies}

InitAttachments ==
    /\ lines \in RefFiles
    /\ notes = <<>>
    /\ pc = "call"
    /\ SanitizeIdle /\ LinkIdle /\ RunIdle
    /\ ATTACHMENTS_FOLDER = <<>> /\ second_brain = <<>>

NextAttachments == CallExtract

SpecAttachments == InitAttachments /\ [][NextAttachments]_vars

---------------------------------------------------------------------------
\* What the claims about the scanner speak of: the headings of a file, the
\* property block of each and the body under it.

\* The first line that starts a heading, or Len(ls) + 1.
FirstStars(ls) ==
    LET at == {i \in 1..Len(ls) : starts_with_stars(ls[i])}
    IN  IF at = {} THEN Len(ls) + 1 ELSE CHOOSE i \in at : \A j \in at : i <= j

\* The next heading after line p, or Len(ls) + 1.
NextHeading(ls, p) ==
    LET at == {i \in (p + 1)..Len(ls) : heading_match(ls[i])}
    IN  IF at = {} THEN Len(ls) + 1 ELSE CHOOSE i \in at : \A j \in at : i <= j

RECURSIVE OwnBlock(_, _, _, _, _)
\* The property block that starts at line i and ends before line to: the
\* ID it supplies (<<>> for none) and the line its body starts at.
OwnBlock(ls, i, to, open, id) ==
    IF i >= to THEN [id |-> id, body |-> to]
    ELSE IF ls[i].kind = "properties" THEN OwnBlock(ls, i + 1, to, TRUE, id)
    ELSE IF ls[i].kind = "end" THEN OwnBlock(ls, i + 1, to, FALSE, id)
    ELSE IF open
    THEN OwnBlock(ls, i + 1, to, open,
                  IF ls[i].kind = "prop" /\ ls[i].key = "ID" THEN ls[i].text ELSE id)
    ELSE [id |-> id, body |-> i]

RECURSIVE RootBlock(_, _, _, _, _, _)
\* The preamble, lines i to to - 1: the ID its property blocks supply and
\* its body, the lines outside them that are no title line.
RootBlock(ls, i, to, open, id, body) ==
    IF i >= to THEN [id |-> id, content |-> body]
    ELSE IF ls[i].kind = "title" THEN RootBlock(ls, i + 1, to, open, id, body)
    ELSE IF ls[i].kind = "properties" THEN RootBlock(ls, i + 1, to, TRUE, id, body)
    ELSE IF ls[i].kind = "end" THEN RootBlock(ls, i + 1, to, FALSE, id, body)
    ELSE IF open
    THEN RootBlock(ls, i + 1, to, open,
                   IF ls[i].kind = "prop" /\ ls[i].key = "ID" THEN ls[i].text ELSE id,
                   body)
    ELSE RootBlock(ls, i + 1, to, open, id, Append(body, ls[i]))

RECURSIVE HeadingSections(_, _)
\* The identified headings from line p on, in order: id, level and body.
HeadingSections(ls, p) ==
    IF p > Len(ls) THEN <<>>
    ELSE LET to == NextHeading(ls, p)
             block == OwnBlock(ls, p + 1, to, FALSE, <<>>)
             rest == HeadingSections(ls, to)
         IN  IF block.id # <<>>
             THEN <<[id |-> block.id, level |-> ls[p].stars,
                     content |-> SubSeq(ls, block.body, to - 1)]>> \o rest
             ELSE rest

\* The identified root and headings of a file, in order of appearance.
Sections(ls) ==
    LET root == RootBlock(ls, 1, FirstStars(ls), FALSE, <<>>, <<>>)
    IN  (IF root.id # <<>>
         THEN <<[id |-> root.id, level |-> 0, content |-> root.content]>>
         ELSE <<>>) \o HeadingSections(ls, NextHeading(ls, 0))

\* Every property block is closed before the next line that starts a heading.
BlocksClosed(ls) ==
    \A i \in 1..Len(ls) :
        ls[i].kind = "properties" =>
            \E j \in (i + 1)..Len(ls) :
                /\ ls[j].kind = "end"
                /\ \A k \in (i + 1)..(j - 1) : ~starts_with_stars(ls[k])

IdLevel(ns) == [i \in 1..Len(ns) |-> [id |-> ns[i].id, level |-> ns[i].level]]

\* Each :ID: line stands in a property block that was opened under its own
\* heading (or in the preamble), and no line is a run of stars without a
\* title: the files in which the owner of every ID is beyond doubt.
IdsInOwnBlocks(ls) ==
    /\ \A i \in 1..Len(ls) : ls[i].kind # "stars"
    /\ \A i \in 1..Len(ls) :
          ls[i].kind = "prop" =>
              \E j \in 1..(i - 1) :
                  /\ ls[j].kind = "properties"
                  /\ \A k \in (j + 1)..(i - 1) : ls[k].kind \notin {"heading", "end"}

\* C1: extract_notes_from_file returns, in order of appearance, one Note
\* for the root and for each heading whose own property block supplies an
\* ID, with that ID and the level (0 for the root, the number of stars for
\* a heading), and no other Note.  Stated for the files in which the owner
\* of every ID is beyond doubt.
C1_NotesAreIdentifiedSections ==
    (pc = "return" /\ IdsInOwnBlocks(lines)) =>
        IdLevel(notes) = IdLevel(Sections(lines))

\* C2: the content of each returned Note is the body of its own section:
\* the lines after its heading and property block (for the root, the
\* preamble) up to the next heading.  Stated for the files whose property
\* blocks are closed and hold every :ID: line, where the Notes returned are
\* those of C1.
C2_ContentIsOwnBody ==
    (pc = "return" /\ BlocksClosed(lines) /\ IdsInOwnBlocks(lines)) =>
        \A i \in 1..Len(notes) :
            \E k \in 1..Len(Sections(lines)) :
                /\ Sections(lines)[k].id = notes[i].id
                /\ Sections(lines)[k].level = notes[i].level
                /\ Sections(lines)[k].content = notes[i].content

\* On the files whose property blocks are closed the Notes returned are
\* the identified sections (the scanner agrees with C1 there).
ClosedBlocksGiveSections ==
    (pc = "return" /\ BlocksClosed(lines)) => IdLevel(notes) = IdLevel(Sections(lines))

---------------------------------------------------------------------------
\* Claims about sanitize_filename and replace_links

\* The reserved set as C9 lists it.
C9_Reserved == {"'", "<", ">", ":", "\"", "/", "\\", "|", "?", "*"}
C9_Control == {"\t", "\n", "\f", "\r"}

\* C9: sanitize_filename replaces each reserved and each control character
\* by "-" one for one and leaves every other character as it is: the result
\* has the length of its argument, holds no reserved or control character,
\* and sanitizing it again changes nothing.
C9_SanitizeOneForOne ==
    pc = "return" =>
        /\ Len(sanitized) = Len(filename)
        /\ \A i \in 1..Len(filename) :
              sanitized[i] = IF filename[i] \in C9_Reserved \cup C9_Control
                             THEN "-" ELSE filename[i]
        /\ \A i \in 1..Len(sanitized) : sanitized[i] \notin C9_Reserved \cup C9_Control
        /\ sanitize_filename(sanitized) = sanitized

C9_Witness ==
    /\ pc = "return"
    /\ filename = <<"a", "/", "\n", "-">>
    /\ sanitized = <<"a", "-", "-", "-">>

\* C3: a link whose target is id:X with X a key of the graph becomes
\* [[sanitized title of the note stored under X]], whatever the label and
\* the current note; the key is matched exactly.
C3_ResolvedIdLink ==
    pc = "return" =>
        \A i \in 1..Len(second_brain) :
            link_target = ID_SCHEME \o second_brain[i].id =>
                replaced = <<"[", "[">> \o sanitize_filename(second_brain[i].title)
                               \o <<"]", "]">>

C3_Witness ==
    /\ pc = "return"
    /\ link_target = <<"i", "d", ":", "A">>
    /\ link_text = <<"L">>
    /\ Len(second_brain) = 2
    /\ second_brain[1].id = <<"a">> /\ second_brain[1].title = <<"T">>
    /\ second_brain[2].id = <<"A">> /\ second_brain[2].title = <<"x", "/", "y">>
    /\ current_note = second_brain[1]
    /\ replaced = <<"[", "[", "x", "-", "y", "]", "]">>

---------------------------------------------------------------------------
\* main, step 3: re.sub(link_pattern, lambda m: replace_links(...), content)

\* The first index from i on at which content holds c, or Len(content) + 1.
FindChar(content, i, c) ==
    LET at == {k \in i..Len(content) : content[k] = c}
    IN  IF at = {} THEN Len(content) + 1 ELSE CHOOSE k \in at : \A j \in at : k <= j

\* A match of \[([^\]]+)\]\(([^\)]+)\) that starts at index i: group 1 runs
\* to the first "]", which "(" must follow, and group 2 to the first ")".
link_match(content, i) ==
    LET close == FindChar(content, i + 1, "]")
        paren == FindChar(content, close + 2, ")")
    IN  IF /\ content[i] = "["
           /\ close > i + 1
           /\ close + 1 <= Len(content)
           /\ content[close + 1] = "("
           /\ paren > close + 2
           /\ paren <= Len(content)
        THEN <<[text |-> SubSeq(content, i + 1, close - 1),
                target |-> SubSeq(content, close + 2, paren - 1),
                end |-> paren]>>
        ELSE <<>>

RECURSIVE re_sub_links(_, _, _, _, _)
\* The substitution from index i on: leftmost matches, none overlapping.
re_sub_links(content, i, brain, folder, current) ==
    IF i > Len(content) THEN <<>>
    ELSE LET m == link_match(content, i)
         IN  IF m # <<>>
             THEN replace_links(brain, m[1].text, m[1].target, folder, current)
                      \o re_sub_links(content, m[1].end + 1, brain, folder, current)
             ELSE <<content[i]>> \o re_sub_links(content, i + 1, brain, folder, current)

---------------------------------------------------------------------------
\* Specification SpecResub: the substitution of step 3 on every text of at
\* most MaxContentLen pieces of ContentPieces, in a graph of one note.

ContentPieces ==
    {<<"[">>, <<"]">>, <<"(">>, <<")">>, <<"\n">>, <<"L">>, ID_SCHEME \o <<"a">>}

RECURSIVE Texts(_)
\* The texts of at most n pieces.
Texts(n) ==
    IF n = 0 THEN {<<>>}
    ELSE LET shorter == Texts(n - 1)
         IN  shorter \cup {t \o piece : t \in shorter, piece \in ContentPieces}

InitResub ==
    /\ second_brain = <<Note(<<"a">>, <<"T">>, <<>>, 1, <<>>)>>
    /\ current_note = second_brain[1]
    /\ ATTACHMENTS_FOLDER = <<"a", "t", "t">>
    /\ md_content \in Texts(MaxContentLen)
    /\ new_content = <<>>
    /\ link_text = <<>> /\ link_target = <<>> /\ replaced = <<>>
    /\ pc = "call"
    /\ SanitizeIdle /\ ExtractIdle /\ RunIdle

CallReSub ==
    /\ pc = "call"
    /\ new_content' = re_sub_links(md_content, 1, second_brain, ATTACHMENTS_FOLDER,
                                    current_note)
    /\ pc' = "return"
    /\ UNCHANGED <<link_text, link_target, current_note, replaced, md_content,
                   sanitize_vars, extract_vars, run_vars, ATTACHMENTS_FOLDER,
                   second_brain>>

NextResub == CallReSub

SpecResub == InitResub /\ [][NextResub]_vars

---------------------------------------------------------------------------
\* main, step 1: the graph

RECURSIVE insert_notes(_, _)
\* for note in notes: second_brain[note.id] = note
insert_notes(brain, ns) ==
    IF ns = <<>> THEN brain
    ELSE insert_notes(brain_set(brain, Head(ns)), Tail(ns))

---------------------------------------------------------------------------
\* main, step 2: the renderer and copy_attachments

OUTPUT_FOLDER == <<"o">>
MD == <<".", "m", "d">>

\* os.path.join(output_folder, f"{sanitize_filename(note.title)}.md")
output_filename(note) == join2(OUTPUT_FOLDER, sanitize_filename(note.title) \o MD)

\* get_attachment_prefix(note_id): note_id[:2]
get_attachment_prefix(note_id) ==
    SubSeq(note_id, 1, IF Len(note_id) < 2 THEN Len(note_id) ELSE 2)

\* os.path.join(attachments_folder, attachment_prefix, note.id, attachment)
source_attachment_path(folder, note, attachment) ==
    path_join(<<folder, get_attachment_prefix(note.id), note.id, attachment>>)

\* os.path.join(output_folder, attachments_basename, folder_name)
dest_dir(folder, note, by_title) ==
    path_join(<<OUTPUT_FOLDER, basename(folder),
                IF by_title THEN sanitize_filename(note.title) ELSE note.id>>)

\* The directories os.makedirs(path, exist_ok=True) leaves in place.
makedirs(path) ==
    LET segs == Segments(path)
    IN  {SubSeq(segs, 1, n) : n \in 1..Len(segs)}

\* The directory a file is written into.
Parent(segs) == SubSeq(segs, 1, Len(segs) - 1)

\* f[key] = value for the files and the history, which are functions
Bind(f, key, value) ==
    [k \in DOMAIN f \cup {key} |-> IF k = key THEN value ELSE f[k]]

\* What the external renderer may write for a note: nothing (it failed),
\* the title alone, or the title followed by one link per attachment
\* reference of the note, a link to an identifier and a link to a missing
\* one.
RenderOutcomes == {"failed", "plain", "links"}
IdLink(id) == <<"[", "L", "]", "(">> \o ID_SCHEME \o id \o <<")">>
AttachmentLink(ref) == <<"[", "f", "]", "(">> \o ATTACHMENT_SCHEME \o ref \o <<")">>

RECURSIVE AttachmentLinks(_)
AttachmentLinks(refs) ==
    IF refs = <<>> THEN <<>>
    ELSE AttachmentLink(Head(refs)) \o <<"\n">> \o AttachmentLinks(Tail(refs))

RenderedText(note, outcome) ==
    IF outcome = "plain" THEN note.title \o <<"\n">>
    ELSE note.title \o <<"\n">> \o AttachmentLinks(note.attachments)
             \o IdLink(<<"a", "b", "1">>) \o IdLink(<<"z", "z", "9">>)

---------------------------------------------------------------------------
\* Specification Spec: a run of main over at most MaxFiles input files
\* drawn from RunFiles, for either setting of use_title, an attachments
\* folder given by name or by absolute path, and the source layouts of
\* SourceLayouts.  The output root starts empty.

ID1 == <<"a", "b", "1">>
ID2 == <<"c", "d", "2">>
ID3 == <<"e", "f", "3">>

\* A root note with two references and a sub-heading with identifier ID2
\* whose body links a file under attachments/ and an attachment.
FileOne ==
    <<PropertiesLine, PropLine("ID", ID1), EndLine, TitleLine(<<"T">>),
      TextLine(<<"t">>, <<AttachmentRef(<<"x">>), FileRef(<<".", "/", "y">>)>>),
      HeadingLine(1, <<"S">>), PropertiesLine, PropLine("ID", ID2), EndLine,
      TextLine(<<"u">>, <<FileRef(NESTED_X)>>),
      TextLine(<<"v">>, <<AttachmentRef(<<"x">>)>>)>>

\* A heading note that reuses identifier ID1 and the title of FileOne's root.
FileTwo ==
    <<HeadingLine(1, <<"T">>), PropertiesLine, PropLine("ID", ID1), EndLine,
      TextLine(<<"w">>, <<>>)>>

\* A heading note with an identifier of its own and the title of ID2's note.
FileThree ==
    <<HeadingLine(1, <<"S">>), PropertiesLine, PropLine("ID", ID3), EndLine,
      TextLine(<<"t">>, <<AttachmentRef(<<"x">>)>>)>>

\* Two headings of one file with the same identifier, and text before them.
FileFour ==
    <<TextLine(<<"t">>, <<>>),
      HeadingLine(1, <<"U">>), PropertiesLine, PropLine("ID", ID2), EndLine,
      HeadingLine(2, <<"V", ":">>), PropertiesLine, PropLine("ID", ID2), EndLine,
      TextLine(<<"u">>, <<AttachmentRef(<<"x">>)>>)>>

RunFiles == {FileOne, FileTwo, FileThree, FileFour}
RunFolders == {<<"a", "t", "t">>, <<"/", "d", "/", "a", "t", "t">>}

\* The attachment store: empty; one file per note under
\* <folder>/<shard>/<id>/; the same with a file under a nested directory.
StoredByName(folder) ==
    {Segments(path_join(<<folder, get_attachment_prefix(id), id, name>>)) :
        id \in {ID1, ID2, ID3}, name \in {<<"x">>, <<"y">>}}
SourceLayouts(folder) ==
    {{}, StoredByName(folder),
     StoredByName(folder)
        \cup {Segments(path_join(<<folder, get_attachment_prefix(ID2), ID2, NESTED_X>>))}}

Init ==
    /\ ATTACHMENTS_FOLDER \in RunFolders
    /\ use_title \in BOOLEAN
    /\ files \in Strings(RunFiles, MaxFiles)
    /\ src_fs \in SourceLayouts(ATTACHMENTS_FOLDER)
    /\ second_brain = <<>>
    /\ pc = "extract"
    /\ idx = 0
    /\ att_idx = 0
    /\ out_md = NoFiles /\ out_dirs = {} /\ out_att = {}
    /\ printed = <<>> /\ rendered = NoFiles /\ looked_up = <<>>
    /\ attempted = NothingAttempted
    /\ SanitizeIdle /\ LinkIdle /\ ExtractIdle

idle_vars == <<sanitize_vars, link_vars, extract_vars>>
input_vars == <<ATTACHMENTS_FOLDER, use_title, files, src_fs>>

\* Step 1, one file: extract its notes and bind each under its id.
ProcessFile ==
    /\ pc = "extract"
    /\ idx < Len(files)
    /\ second_brain' = insert_notes(second_brain, extract_notes_from_file(files[idx + 1]))
    /\ idx' = idx + 1
    /\ UNCHANGED <<idle_vars, input_vars, pc, att_idx, out_md, out_dirs, out_att,
                   printed, rendered, looked_up, attempted>>

\* A plausible slip: step 2 starts once one file has been read, the rest of
\* the input unread.
StartTransform_after_first_file ==
    /\ pc = "extract"
    /\ idx >= 1
    /\ out_dirs' = out_dirs \cup makedirs(OUTPUT_FOLDER)
    /\ pc' = "render"
    /\ idx' = 1
    /\ UNCHANGED <<idle_vars, input_vars, second_brain, att_idx, out_md, out_att,
                   printed, rendered, looked_up, attempted>>

\* os.makedirs(output_folder, exist_ok=True), then the loop of step 2.
StartTransform ==
    /\ pc = "extract"
    /\ idx = Len(files)
    /\ out_dirs' = out_dirs \cup makedirs(OUTPUT_FOLDER)
    /\ pc' = "render"
    /\ idx' = 1
    /\ UNCHANGED <<idle_vars, input_vars, second_brain, att_idx, out_md, out_att,
                   printed, rendered, looked_up, attempted>>

\* Step 2 for one note, up to the call of copy_attachments: the temporary
\* Org file is written, the renderer runs with its status unread, and the
\* temporary file is removed.
Render ==
    /\ pc = "render"
    /\ idx <= Len(second_brain)
    /\ LET note == second_brain[idx]
       IN  \E outcome \in RenderOutcomes :
             /\ out_md' = IF outcome = "failed" THEN out_md
                          ELSE Bind(out_md, output_filename(note),
                                    RenderedText(note, outcome))
             /\ rendered' = Bind(rendered, note.id, outcome)
             /\ attempted' = [attempted EXCEPT !.render = @ \cup {note.id},
                                               !.copy = @ \cup {note.id}]
    /\ pc' = "copy"
    /\ att_idx' = 1
    /\ UNCHANGED <<idle_vars, input_vars, second_brain, idx, out_dirs, out_att,
                   printed, looked_up>>

\* One turn of the loop of copy_attachments.
CopyAttachment ==
    /\ pc = "copy"
    /\ get_attachment_prefix(second_brain[idx].id) # <<>>
    /\ att_idx <= Len(second_brain[idx].attachments)
    /\ LET note == second_brain[idx]
           attachment == note.attachments[att_idx]
           source == source_attachment_path(ATTACHMENTS_FOLDER, note, attachment)
           dir == dest_dir(ATTACHMENTS_FOLDER, note, use_title)
           dest_path == join2(dir, attachment)
           found == Segments(source) \in src_fs
           dirs == out_dirs \cup makedirs(dir)
           copied == found /\ Parent(Segments(dest_path)) \in dirs
       IN  /\ looked_up' = Append(looked_up,
                                  [id |-> note.id, title |-> note.title,
                                   attachment |-> attachment,
                                   source |-> Segments(source), found |-> found,
                                   dest |-> Segments(dest_path), copied |-> copied])
           /\ out_dirs' = IF found THEN dirs ELSE out_dirs
           /\ out_att' = IF copied THEN out_att \cup {Segments(dest_path)} ELSE out_att
           /\ printed' = IF ~found
                         THEN Append(printed, [what |-> "Attachment not found",
                                               path |-> source])
                         ELSE IF ~copied
                         THEN Append(printed, [what |-> "Traceback: shutil.copy2",
                                               path |-> dest_path])
                         ELSE printed
           /\ pc' = IF found /\ ~copied THEN "raised" ELSE "copy"
    /\ att_idx' = att_idx + 1
    /\ UNCHANGED <<idle_vars, input_vars, second_brain, idx, out_md, rendered, attempted>>

\* copy_attachments returns: the next note of step 2.
EndCopy ==
    /\ pc = "copy"
    /\ \/ att_idx > Len(second_brain[idx].attachments)
       \/ get_attachment_prefix(second_brain[idx].id) = <<>>
    /\ pc' = "render"
    /\ idx' = idx + 1
    /\ UNCHANGED <<idle_vars, input_vars, second_brain, att_idx, out_md, out_dirs,
                   out_att, printed, rendered, looked_up, attempted>>

\* The loop of step 2 ends: the loop of step 3.
EndTransform ==
    /\ pc = "render"
    /\ idx > Len(second_brain)
    /\ pc' = "links"
    /\ idx' = 1
    /\ UNCHANGED <<idle_vars, input_vars, second_brain, att_idx, out_md, out_dirs,
                   out_att, printed, rendered, looked_up, attempted>>

\* Step 3 for one note: open its file, substitute the links, write it back.
UpdateLinks ==
    /\ pc = "links"
    /\ idx <= Len(second_brain)
    /\ LET note == second_brain[idx]
           name == output_filename(note)
       IN  /\ attempted' = [attempted EXCEPT !.links = @ \cup {note.id}]
           /\ IF name \in DOMAIN out_md
              THEN /\ out_md' = Bind(out_md, name,
                                     re_sub_links(out_md[name], 1, second_brain,
                                                  ATTACHMENTS_FOLDER, note))
                   /\ printed' = Append(printed, [what |-> "Processing file",
                                                  path |-> name])
                   /\ pc' = "links"
              ELSE /\ out_md' = out_md
                   /\ printed' = printed
                                   \o <<[what |-> "Processing file", path |-> name],
                                        [what |-> "Traceback: open", path |-> name]>>
                   /\ pc' = "raised"
    /\ idx' = idx + 1
    /\ UNCHANGED <<idle_vars, input_vars, second_brain, att_idx, out_dirs, out_att,
                   rendered, looked_up>>

\* "Conversion complete!"
Finish ==
    /\ pc = "links"
    /\ idx > Len(second_brain)
    /\ pc' = "done"
    /\ UNCHANGED <<idle_vars, input_vars, second_brain, idx, att_idx, out_md,
                   out_dirs, out_att, printed, rendered, looked_up, attempted>>

Next ==
    \/ ProcessFile
    \/ StartTransform
    \/ Render
    \/ CopyAttachment
    \/ EndCopy
    \/ EndTransform
    \/ UpdateLinks
    \/ Finish

Spec == Init /\ [][Next]_vars

---------------------------------------------------------------------------
\* Claims about a run of main

Terminated == pc \in {"done", "raised"}

Keys == {second_brain[i].id : i \in 1..Len(second_brain)}

\* No two notes of the graph share a rendered file.
FilesDistinct ==
    \A i, j \in 1..Len(second_brain) :
        output_filename(second_brain[i]) = output_filename(second_brain[j]) => i = j

\* The embed C5 expects for a reference of a note: the base name of the
\* attachments folder, the note's id and the reference's base name.
C5_Embed(note, ref) ==
    <<"!", "[", "[">> \o basename(ATTACHMENTS_FOLDER) \o <<"/">> \o note.id
        \o <<"/">> \o basename(ref) \o <<"]", "]">>

\* C5: after a full run with use-title off, every attachment link of a
\* note's rendered file reads ![[A/<id>/<basename>]], A the base name of the
\* attachments folder given to the run.  Stated for the graphs whose notes
\* have rendered files of their own.
C5_AttachmentLinksUseFolderBasename ==
    (pc = "done" /\ ~use_title /\ FilesDistinct) =>
        \A i \in 1..Len(second_brain) :
            rendered[second_brain[i].id] = "links" =>
                \A k \in 1..Len(second_brain[i].attachments) :
                    Contains(out_md[output_filename(second_brain[i])],
                             C5_Embed(second_brain[i], second_brain[i].attachments[k]))

\* The first two characters of an id.
C6_Shard(id) == IF Len(id) <= 2 THEN id ELSE <<id[1], id[2]>>

\* C6: for every reference r of a note, copy_attachments looks the source
\* up at <attachments root>/<shard>/<id>/<basename(r)> and, when that file
\* exists, copies it to <output root>/<basename of the attachments
\* folder>/<id, or the sanitized title under use_title>/<basename(r)>.
C6_OnlyBasenameIsUsed ==
    \A k \in 1..Len(looked_up) :
        LET e == looked_up[k]
            source == Segments(path_join(<<ATTACHMENTS_FOLDER, C6_Shard(e.id), e.id,
                                           basename(e.attachment)>>))
            dest == Segments(path_join(<<OUTPUT_FOLDER, basename(ATTACHMENTS_FOLDER),
                                         IF use_title THEN sanitize_filename(e.title)
                                         ELSE e.id,
                                         basename(e.attachment)>>))
        IN  /\ e.source = source
            /\ source \in src_fs => dest \in out_att

\* No copy of an attachment has raised.
NoCopyRaised ==
    \A k \in 1..Len(printed) : printed[k].what # "Traceback: shutil.copy2"

\* C7: every note of the graph is attempted by each of the steps render,
\* copy attachments and resolve links, also when the renderer produced no
\* file for some note: a run that has ended has reached every note in each
\* step.  Stated for the runs in which no copy of an attachment raised.
C7_EveryNoteAttemptedByEachStep ==
    (Terminated /\ NoCopyRaised) =>
        /\ Keys \subseteq attempted.render
        /\ Keys \subseteq attempted.copy
        /\ Keys \subseteq attempted.links

\* C8: a missing source or a failed copy of one attachment is reported and
\* stops neither the other attachments of the note nor the other notes: a
\* run that has ended has looked up every attachment of every note.
C8_AttachmentFailureIsIsolated ==
    Terminated =>
        /\ Keys \subseteq attempted.copy
        /\ \A i \in 1..Len(second_brain) :
              \A k \in 1..Len(second_brain[i].attachments) :
                  \E j \in 1..Len(looked_up) :
                      /\ looked_up[j].id = second_brain[i].id
                      /\ looked_up[j].attachment = second_brain[i].attachments[k]

RECURSIVE Produced(_, _)
\* The Notes the first n files produce, in the order main processes them.
Produced(fs, n) ==
    IF n = 0 THEN <<>>
    ELSE Produced(fs, n - 1) \o extract_notes_from_file(fs[n])

\* C10: the graph holds at most one Note per identifier, every identifier
\* the files processed so far produce is a key, and a key is bound to the
\* last Note produced with it, whole.
C10_LastNoteWins ==
    LET produced == Produced(files, IF pc = "extract" THEN idx ELSE Len(files))
    IN  /\ \A i, j \in 1..Len(second_brain) :
              second_brain[i].id = second_brain[j].id => i = j
        /\ Keys = {produced[k].id : k \in 1..Len(produced)}
        /\ \A k \in 1..Len(produced) :
              (\A m \in (k + 1)..Len(produced) : produced[m].id # produced[k].id)
                  => \E i \in 1..Len(second_brain) : second_brain[i] = produced[k]

\* Two headings of FileFour and a heading of FileOne produce ID2: the graph
\* holds the note of FileOne's heading, under the key's first position.
C10_Witness ==
    /\ pc = "render"
    /\ files = <<FileFour, FileOne>>
    /\ Len(second_brain) = 2
    /\ second_brain[1].id = ID2
    /\ second_brain[1].title = <<"S">>
    /\ second_brain[1].level = 1
    /\ second_brain[1].attachments = <<NESTED_X, <<"x">>>>
    /\ second_brain[2].id = ID1

\* The graph step 1 builds from all the input files.
FullGraph == insert_notes(<<>>, Produced(files, Len(files)))

\* C11: once step 1 is over the graph holds the notes of every input file
\* and stays as step 1 left it: in every state of rendering, copying
\* attachments and resolving links, and after them, the graph is the one
\* built from all the files, with every key and every note (id, title,
\* attachments) unchanged, so every link is resolved against the full graph.
C11_GraphBuiltThenReadOnly ==
    pc # "extract" => second_brain = FullGraph

\* A run over two files has ended; the three notes of the graph have been
\* through step 3 and an id: link of the first has been resolved.
C11_Witness ==
    /\ pc = "done"
    /\ files = <<FileOne, FileThree>>
    /\ Len(second_brain) = 3
    /\ second_brain = FullGraph
    /\ attempted.links = Keys
    /\ rendered[ID1] = "links"
    /\ Contains(out_md[output_filename(second_brain[1])], <<"[", "[", "T", "]", "]">>)

\* C12: any two distinct notes of the graph have different rendered files
\* and, for either setting of use-title, different attachment directories;
\* a full run in which the renderer wrote every note leaves one rendered
\* file per note.
C12_OutputsDisjoint ==
    pc # "extract" =>
        /\ \A i, j \in 1..Len(second_brain) :
              i # j =>
                  /\ output_filename(second_brain[i]) # output_filename(second_brain[j])
                  /\ \A by_title \in BOOLEAN :
                        Segments(dest_dir(ATTACHMENTS_FOLDER, second_brain[i], by_title))
                            # Segments(dest_dir(ATTACHMENTS_FOLDER, second_brain[j], by_title))
        /\ (pc = "done" /\ \A i \in 1..Len(second_brain) :
                               rendered[second_brain[i].id] # "failed")
              => Cardinality(DOMAIN out_md) = Len(second_brain)

---------------------------------------------------------------------------
\* Claims about the attachments list

\* A reference qualifies: the attachment form always, the file form when
\* its path starts with attachments/ or ./
C13_Qualifies(ref) ==
    \/ ref.form = "attachment"
    \/ /\ ref.form = "file"
       /\ \/ startswith(ref.path, <<"a", "t", "t", "a", "c", "h", "m", "e", "n", "t", "s", "/">>)
          \/ startswith(ref.path, <<".", "/">>)

RECURSIVE C13_InSourceOrder(_)
\* The qualifying references of a body, lines top to bottom and each line
\* left to right.
C13_InSourceOrder(body) ==
    IF body = <<>> THEN <<>>
    ELSE RefPaths(SelectSeq(Head(body).refs, C13_Qualifies))
             \o C13_InSourceOrder(Tail(body))

RECURSIVE C13_FormByForm(_)
\* The qualifying references of a body, lines top to bottom and, of each
\* line, those of the attachment form left to right before those of the
\* file form left to right.
C13_FormByForm(body) ==
    IF body = <<>> THEN <<>>
    ELSE LET refs == SelectSeq(Head(body).refs, C13_Qualifies)
             IsAttachment(ref) == ref.form = "attachment"
             IsFile(ref) == ref.form = "file"
         IN  RefPaths(SelectSeq(refs, IsAttachment)) \o RefPaths(SelectSeq(refs, IsFile))
                 \o C13_FormByForm(Tail(body))

---------------------------------------------------------------------------
\* Claims about the substitution of step 3

RECURSIVE C14_LineByLine(_, _, _, _)
\* The text with each of its lines rewritten on its own: a link is matched
\* only where its label and its target lie within one line.
C14_LineByLine(text, brain, folder, current) ==
    LET break == FindChar(text, 1, "\n")
        line == SubSeq(text, 1, break - 1)
    IN  re_sub_links(line, 1, brain, folder, current)
            \o (IF break > Len(text) THEN <<>>
                ELSE <<"\n">> \o C14_LineByLine(SubSeq(text, break + 1, Len(text)),
                                                brain, folder, current))

\* C14: the substitution replaces the occurrences of [label](target) that
\* lie within a single line, left to right and not overlapping, and leaves
\* every other character, line breaks included, as it was: the result is
\* the text with each line rewritten on its own.
C14_LinksWithinOneLine ==
    pc = "return" =>
        new_content = C14_LineByLine(md_content, second_brain, ATTACHMENTS_FOLDER,
                                     current_note)

===========================================================================
